---- MODULE Spec2Model ----
(***************************************************************************)
(* Disneyland review analytics: the keyword cohort pipeline                *)
(* (keyword_impact_summary.py), the text cleaning script                   *)
(* (data_cleaning.py) and the TF-IDF + PCA script (PCA_analysis.py).       *)
(*                                                                         *)
(* Numbers.  Ratings are integers 1..5.  Sentiment scores and every value  *)
(* that the scripts round to 3 decimals are held in thousandths, the       *)
(* mention rate (rounded to 2 decimals of a percent) in hundredths of a    *)
(* percent.  A number that may be missing is a sequence: <<v>> is v, and   *)
(* NaN, the missing marker (numpy's nan), is <<>>.  A missing text cell is *)
(* NaNText and a missing Branch cell NaNBranch.                            *)
(* Text is a sequence of one-character strings.  A column name is a        *)
(* sequence of tokens, so that the prefix test and the replace() of the    *)
(* cohort script act on the name: "has_wait_time" is <<"has_","wait_time">>*)
(***************************************************************************)
EXTENDS Integers, Sequences, FiniteSets, TLC

VARIABLES
  csv_file,        \* DisneylandReviews_clean.csv as it lies on disk
  keyword_groups,  \* the topic configuration: a sequence of [name, patterns]
  pc,              \* position of keyword_impact_summary.py
  df,              \* its DataFrame: [cols, rows]
  flag_cols,       \* the has_ columns found by line 70
  rows,            \* the overall rows, in loop order
  impact_df,       \* the overall table after sort_values
  branch_rows,     \* the per-branch rows
  raised,          \* the exception that ended the script, or "none"
  topic_i,         \* topics handled so far by the loop of line 66
  reviews_file,    \* DisneylandReviews.csv: the rows of the raw table
  clean_pc,        \* position of data_cleaning.py
  clean_df,        \* its DataFrame: a sequence of rows
  pca_pc,          \* position of PCA_analysis.py
  pca_df,          \* its DataFrame after dropna: a sequence of rows
  printed,         \* the number its "Loaded ... reviews" line prints, or NaN
  feature_names,   \* the vocabulary of the fitted vectorizer
  X,               \* the document-term matrix: per row, term -> count
  X_pca,           \* the PCA result: its shape, or <<>> before it exists
  pca_raised       \* the exception that ended PCA_analysis.py, or "none"

cohortVars == <<keyword_groups, pc, df, flag_cols, rows, impact_df,
                branch_rows, raised, topic_i>>
cleanVars == <<reviews_file, clean_pc, clean_df>>
pcaVars == <<pca_pc, pca_df, printed, feature_names, X, X_pca, pca_raised>>
vars == <<csv_file, cohortVars, cleanVars, pcaVars>>

NaN == <<>>
Num(v) == <<v>>
IsNaN(x) == x = NaN
ValueOf(x) == x[1]
NaNText == <<"NaN">>
NaNBranch == "NaN"

----------------------------------------------------------------------------
(* Arithmetic                                                              *)

\* numpy's round: the nearest integer, a tie going to the even one.
RoundHalfEven(num, den) ==
  LET q == num \div den
      r == num % den
  IN  IF 2 * r < den THEN q
      ELSE IF 2 * r > den THEN q + 1
      ELSE IF q % 2 = 0 THEN q ELSE q + 1

RECURSIVE SumSeq(_)
SumSeq(s) == IF s = <<>> THEN 0 ELSE Head(s) + SumSeq(Tail(s))

Range(s) == {s[i] : i \in 1..Len(s)}

----------------------------------------------------------------------------
(* Column names                                                            *)

Col(name) == <<name>>
HasPrefix == "has_"

\* f"has_{group_name}"
FlagColName(group_name) == <<HasPrefix>> \o group_name
\* c.startswith("has_")
StartsWithHas(c) == Len(c) >= 1 /\ c[1] = HasPrefix
\* col.replace("has_", ""): every occurrence goes, not only the prefix
ReplaceHas(c) == SelectSeq(c, LAMBDA t : t # HasPrefix)

----------------------------------------------------------------------------
(* build_flag_column: the regular expression                               *)

UpperCase ==
  <<"A", "B", "C", "D", "E", "F", "G", "H", "I", "J", "K", "L", "M",
    "N", "O", "P", "Q", "R", "S", "T", "U", "V", "W", "X", "Y", "Z">>
LowerCase ==
  <<"a", "b", "c", "d", "e", "f", "g", "h", "i", "j", "k", "l", "m",
    "n", "o", "p", "q", "r", "s", "t", "u", "v", "w", "x", "y", "z">>
Digits == {"0", "1", "2", "3", "4", "5", "6", "7", "8", "9"}

\* str.lower() on one character
Lower(ch) ==
  IF \E i \in 1..Len(UpperCase) : UpperCase[i] = ch
  THEN LowerCase[CHOOSE i \in 1..Len(UpperCase) : UpperCase[i] = ch]
  ELSE ch

LowerText(t) == [i \in 1..Len(t) |-> Lower(t[i])]

\* The literal p occurs in t at offset i (re.IGNORECASE).
MatchesAt(t, p, i) ==
  /\ i + Len(p) - 1 <= Len(t)
  /\ \A k \in 1..Len(p) : Lower(t[i + k - 1]) = Lower(p[k])

\* re.search of one literal alternative.
SearchLiteral(t, p) == \E i \in 1..(Len(t) + 1) : MatchesAt(t, p, i)

\* Depth of open parentheses after each prefix of a pattern; the pattern
\* language of the model is literals and parentheses.
RECURSIVE ParenDepth(_, _)
ParenDepth(p, d) ==
  IF p = <<>> THEN d
  ELSE IF d < 0 THEN d
  ELSE IF Head(p) = "(" THEN ParenDepth(Tail(p), d + 1)
  ELSE IF Head(p) = ")" THEN ParenDepth(Tail(p), d - 1)
  ELSE ParenDepth(Tail(p), d)

RECURSIVE JoinPatterns(_)
JoinPatterns(pattern_list) ==
  IF pattern_list = <<>> THEN <<>>
  ELSE IF Len(pattern_list) = 1 THEN pattern_list[1]
  ELSE pattern_list[1] \o <<"|">> \o JoinPatterns(Tail(pattern_list))

\* r"(" + r"|".join(pattern_list) + r")"
CombinedPattern(pattern_list) == <<"(">> \o JoinPatterns(pattern_list) \o <<")">>

\* re.compile succeeds: the parentheses balance.
Compiles(combined) == ParenDepth(combined, 0) = 0

\* The alternatives of a compiled combined pattern.  An empty pattern list
\* gives "()", one alternative that is the empty string.
Alternatives(pattern_list) ==
  IF pattern_list = <<>> THEN {<<>>} ELSE Range(pattern_list)

\* Series.str.contains on one cell that holds text.
StrContains(cell, pattern_list) ==
  \E p \in Alternatives(pattern_list) : SearchLiteral(cell, p)

\* .astype(int) on one boolean
AstypeInt(b) == IF b THEN 1 ELSE 0

\* What str.contains(...).astype(int) makes of a missing cell.  On an object
\* column str.contains leaves NaN and astype(int) raises ValueError; on the
\* string dtype that pandas 3 reads text as, the missing cell is False.
NaCellOutcomes == {"ValueError", "False"}

\* build_flag_column: the outcomes [error, values].
BuildFlagColumn(text_series, pattern_list) ==
  IF ~Compiles(CombinedPattern(pattern_list))
  THEN {[error |-> "re.error", values |-> <<>>]}
  ELSE LET flags == [k \in 1..Len(text_series) |->
                       IF text_series[k] = NaNText THEN 0
                       ELSE AstypeInt(StrContains(text_series[k], pattern_list))]
       IN  IF \E k \in 1..Len(text_series) : text_series[k] = NaNText
           THEN {[error |-> IF o = "ValueError" THEN o ELSE "none",
                  values |-> IF o = "ValueError" THEN <<>> ELSE flags] :
                    o \in NaCellOutcomes}
           ELSE {[error |-> "none", values |-> flags]}

----------------------------------------------------------------------------
(* DataFrame helpers                                                       *)

RatingCol == Col("Rating")
SentimentCol == Col("Sentiment_Score")
BranchCol == Col("Branch")
CleanTextCol == Col("Clean_Text")

\* pd.read_csv: an empty field is read back as NaN.
ReadCell(c, v) ==
  IF c = CleanTextCol THEN (IF v = <<>> THEN NaNText ELSE v)
  ELSE IF c = BranchCol THEN (IF v = "" THEN NaNBranch ELSE v)
  ELSE v

ReadCsv(file) ==
  [cols |-> file.cols,
   rows |-> [k \in 1..Len(file.rows) |->
               [c \in DOMAIN file.rows[k] |-> ReadCell(c, file.rows[k][c])]]]

\* df[col_name] = values: a new column goes last, an existing one is
\* overwritten in place.
SetColumn(frame, col_name, values) ==
  [cols |-> IF col_name \in Range(frame.cols) THEN frame.cols
            ELSE Append(frame.cols, col_name),
   rows |-> [k \in 1..Len(frame.rows) |->
               [c \in DOMAIN frame.rows[k] \cup {col_name} |->
                  IF c = col_name THEN values[k] ELSE frame.rows[k][c]]]]

\* frame[frame[col] == v]
Filter(table, col, v) == SelectSeq(table, LAMBDA r : r[col] = v)

ColumnOf(table, col) == [k \in 1..Len(table) |-> table[k][col]]

SumCol(table, col) == SumSeq(ColumnOf(table, col))

\* The units a column's cells are held in: a rating is a whole number, a
\* sentiment score is held in ten-thousandths.
SentimentUnitsPerOne == 10 * 1000
UnitsPerOne(col) == IF col = SentimentCol THEN SentimentUnitsPerOne ELSE 1

\* round(x, 3) of the quotient num / den of two sums of cells of col, in
\* thousandths.
Round3(num, den, col) == RoundHalfEven(1000 * num, den * UnitsPerOne(col))

\* round(part[col].mean(), 3) if len(part) > 0 else np.nan
RoundedMean(part, col) ==
  IF Len(part) > 0
  THEN Num(Round3(SumCol(part, col), Len(part), col))
  ELSE NaN

\* The delta were it taken from the two reported means, each already
\* rounded.
DiffOfRoundedMeans(mentioned, not_mentioned, col) ==
  IF Len(mentioned) > 0 /\ Len(not_mentioned) > 0
  THEN Num(ValueOf(RoundedMean(mentioned, col))
             - ValueOf(RoundedMean(not_mentioned, col)))
  ELSE NaN

\* The delta were an empty partition reported as a difference of 0.
DiffZeroWhenEmpty(mentioned, not_mentioned, col) ==
  IF Len(mentioned) > 0 /\ Len(not_mentioned) > 0
  THEN Num(Round3(SumCol(mentioned, col) * Len(not_mentioned)
                    - SumCol(not_mentioned, col) * Len(mentioned),
                  Len(mentioned) * Len(not_mentioned), col))
  ELSE Num(0)

\* round(mentioned[col].mean() - not_mentioned[col].mean(), 3)
\*   if len(mentioned) > 0 and len(not_mentioned) > 0 else np.nan
RoundedDiff(mentioned, not_mentioned, col) ==
  IF Len(mentioned) > 0 /\ Len(not_mentioned) > 0
  THEN Num(Round3(SumCol(mentioned, col) * Len(not_mentioned)
                    - SumCol(not_mentioned, col) * Len(mentioned),
                  Len(mentioned) * Len(not_mentioned), col))
  ELSE NaN

\* The rate were it taken over the rows that do not mention the topic
\* rather than over the scope.
RateOverNotMentioned(scope, col) ==
  IF Len(Filter(scope, col, 0)) = 0 THEN NaN
  ELSE Num(RoundHalfEven(100 * 100 * SumCol(scope, col),
                         Len(Filter(scope, col, 0))))

\* round(scope[col].mean() * 100, 2), in hundredths of a percent; the mean
\* of an empty column is NaN.
MentionRate(scope, col) ==
  IF Len(scope) = 0 THEN NaN
  ELSE Num(RoundHalfEven(100 * 100 * SumCol(scope, col), Len(scope)))

\* One row of the overall table (lines 83-103) or, with the branch added,
\* of the per-branch table (lines 140-160).
ImpactRow(scope, col) ==
  LET mentioned == Filter(scope, col, 1)
      not_mentioned == Filter(scope, col, 0)
  IN  [topic |-> ReplaceHas(col),
       mention_rate |-> MentionRate(scope, col),
       avg_rating_if_mentioned |-> RoundedMean(mentioned, RatingCol),
       avg_rating_if_not_mentioned |-> RoundedMean(not_mentioned, RatingCol),
       avg_sentiment_if_mentioned |-> RoundedMean(mentioned, SentimentCol),
       avg_sentiment_if_not_mentioned |-> RoundedMean(not_mentioned, SentimentCol),
       rating_diff |-> RoundedDiff(mentioned, not_mentioned, RatingCol),
       sentiment_diff |-> RoundedDiff(mentioned, not_mentioned, SentimentCol),
       n_reviews_mentioned |-> Len(mentioned),
       n_reviews_not_mentioned |-> Len(not_mentioned)]

\* DataFrame.sort_values(by="rating_diff"): kind="quicksort", na_position=
\* "last".  The rows whose key is NaN are set aside and appended in their
\* original order; the others are ordered by numpy's quicksort, which is not
\* stable, so rows with equal keys may come out in either order.
Orderings(n) ==
  {p \in [1..n -> 1..n] : \A a, b \in 1..n : a # b => p[a] # p[b]}

SortValuesOutcomes(table) ==
  LET n == Len(table)
      key(k) == table[k].rating_diff
      ordered(p) ==
        \A a, b \in 1..n : a < b =>
          /\ ~(IsNaN(key(p[a])) /\ ~IsNaN(key(p[b])))
          /\ (IsNaN(key(p[a])) /\ IsNaN(key(p[b]))) => p[a] < p[b]
          /\ (~IsNaN(key(p[a])) /\ ~IsNaN(key(p[b]))) =>
                ValueOf(key(p[a])) <= ValueOf(key(p[b]))
  IN  {[k \in 1..n |-> table[p[k]]] : p \in {q \in Orderings(n) : ordered(q)}}

\* The branch names in the order groupby iterates them (sorted).
BranchOrder == <<"Disneyland_HongKong", "Disneyland_Paris">>

\* df.groupby("Branch"): one group per value present, in sorted order; rows
\* whose key is NaN belong to no group (dropna=True).
GroupRows(table, branch) == SelectSeq(table, LAMBDA r : r[BranchCol] = branch)

RECURSIVE BranchBreakdown(_, _, _)
BranchBreakdown(table, cols, b) ==
  IF b > Len(BranchOrder) THEN <<>>
  ELSE LET sub == GroupRows(table, BranchOrder[b])
       IN  (IF Len(sub) = 0 THEN <<>>
            ELSE [j \in 1..Len(cols) |->
                    [branch |-> BranchOrder[b]] @@ ImpactRow(sub, cols[j])])
           \o BranchBreakdown(table, cols, b + 1)

----------------------------------------------------------------------------
(* keyword_impact_summary.py                                               *)

\* Lines 13-18: read the file; Clean_Text must be a column.
Step0Load ==
  /\ pc = "load"
  /\ df' = ReadCsv(csv_file)
  /\ IF CleanTextCol \in Range(csv_file.cols)
     THEN pc' = "flags" /\ raised' = raised
     ELSE pc' = "raised" /\ raised' = "ValueError"
  /\ UNCHANGED <<csv_file, keyword_groups, flag_cols, rows, impact_df,
                 branch_rows, topic_i>>
  /\ UNCHANGED <<cleanVars, pcaVars>>

\* Lines 66-70: one turn of the loop over keyword_groups.items(); after the
\* last topic, flag_cols is read off the column names.
Step1CreateFlag ==
  /\ pc = "flags"
  /\ IF topic_i < Len(keyword_groups)
     THEN LET group == keyword_groups[topic_i + 1]
              col_name == FlagColName(group.name)
          IN  \E built \in BuildFlagColumn(ColumnOf(df.rows, CleanTextCol),
                                           group.patterns) :
                IF built.error = "none"
                THEN /\ df' = SetColumn(df, col_name, built.values)
                     /\ topic_i' = topic_i + 1
                     /\ UNCHANGED <<pc, raised, flag_cols>>
                ELSE /\ pc' = "raised"
                     /\ raised' = built.error
                     /\ UNCHANGED <<df, topic_i, flag_cols>>
     ELSE /\ flag_cols' = SelectSeq(df.cols, StartsWithHas)
          /\ pc' = "aggregate"
          /\ UNCHANGED <<df, topic_i, raised>>
  /\ UNCHANGED <<csv_file, keyword_groups, rows, impact_df, branch_rows>>
  /\ UNCHANGED <<cleanVars, pcaVars>>

\* Lines 81-105: the overall rows, one per flag column.
Step2Aggregate ==
  /\ pc = "aggregate"
  /\ rows' = [j \in 1..Len(flag_cols) |-> ImpactRow(df.rows, flag_cols[j])]
  /\ pc' = "sort"
  /\ UNCHANGED <<csv_file, keyword_groups, df, flag_cols, impact_df,
                 branch_rows, raised, topic_i>>
  /\ UNCHANGED <<cleanVars, pcaVars>>

\* Lines 107-115: sort by rating_diff and save the overall table.
Step3SortAndSave ==
  /\ pc = "sort"
  /\ impact_df' \in SortValuesOutcomes(rows)
  /\ pc' = "breakdown"
  /\ UNCHANGED <<csv_file, keyword_groups, df, flag_cols, rows, branch_rows,
                 raised, topic_i>>
  /\ UNCHANGED <<cleanVars, pcaVars>>

\* Lines 135-166: the per-branch rows, saved.
Step4Breakdown ==
  /\ pc = "breakdown"
  /\ branch_rows' = BranchBreakdown(df.rows, flag_cols, 1)
  /\ pc' = "done"
  /\ UNCHANGED <<csv_file, keyword_groups, df, flag_cols, rows, impact_df,
                 raised, topic_i>>
  /\ UNCHANGED <<cleanVars, pcaVars>>

----------------------------------------------------------------------------
(* Inputs                                                                  *)

MaxRecords == 2   \* rows of a table whose every column varies
MaxBatch == 6     \* rows of a table in which the ratings and the text vary

\* keyword_groups, lines 25-50: the first two topics with patterns of theirs.
KeywordGroups ==
  <<[name |-> <<"wait_time">>, patterns |-> <<<<"w", "a", "i", "t">>, <<"q", "u", "e", "u", "e">>>>],
    [name |-> <<"price_value">>, patterns |-> <<<<"p", "r", "i", "c", "e">>>>]>>

\* Clean_Text values as data_cleaning.py writes them; the last is the empty
\* string that a review without letters or digits is cleaned to.
TextWait == <<"l", "o", "n", "g", " ", "w", "a", "i", "t">>
TextPrice == <<"p", "r", "i", "c", "e", " ", "t", "o", "o", " ", "h", "i", "g", "h">>
TextFun == <<"f", "u", "n">>
TextEmpty == <<>>

Ratings == 1..5
\* Sentiment_Score, in ten-thousandths: -0.1254 and 0.1254
Sentiments == {-1254, 1254}
Branches == Range(BranchOrder)

CsvCols == <<RatingCol, BranchCol, CleanTextCol, SentimentCol>>

CsvRow(rating, branch, text, sentiment) ==
  (RatingCol :> rating) @@ (BranchCol :> branch) @@ (CleanTextCol :> text)
    @@ (SentimentCol :> sentiment)

\* Sequences of length n over lo..hi that do not decrease.
RECURSIVE NonDecreasing(_, _, _)
NonDecreasing(n, lo, hi) ==
  IF n = 0 THEN {<<>>}
  ELSE UNION {{<<i>> \o t : t \in NonDecreasing(n - 1, i, hi)} : i \in lo..hi}

\* A set as a sequence, to index its members.
RECURSIVE SetToSeq(_)
SetToSeq(S) ==
  IF S = {} THEN <<>>
  ELSE LET x == CHOOSE y \in S : TRUE IN <<x>> \o SetToSeq(S \ {x})

\* Tables in which the ratings and the mention of waiting vary.
BatchRowTypes ==
  SetToSeq({CsvRow(r, BranchOrder[1], t, 1254) :
              r \in Ratings, t \in {TextWait, TextFun}})

\* Tables in which every column varies.
MixedRowTypes ==
  SetToSeq({CsvRow(r, b, t, s) :
              r \in Ratings, b \in Branches,
              t \in {TextWait, TextPrice, TextFun, TextEmpty}, s \in Sentiments})

\* A script that is not run.
CleanIdle == reviews_file = <<>> /\ clean_pc = "idle" /\ clean_df = <<>>

PcaIdle ==
  /\ pca_pc = "idle" /\ pca_df = <<>> /\ printed = NaN
  /\ feature_names = {} /\ X = <<>> /\ X_pca = <<>> /\ pca_raised = "none"

\* The cohort script before its first line.
InitScript ==
  /\ CleanIdle
  /\ PcaIdle
  /\ pc = "load"
  /\ df = [cols |-> <<>>, rows |-> <<>>]
  /\ flag_cols = <<>>
  /\ rows = <<>>
  /\ impact_df = <<>>
  /\ branch_rows = <<>>
  /\ raised = "none"
  /\ topic_i = 0

\* The file is one that data_cleaning.py wrote, the topics are the script's.
Init ==
  /\ \/ \E m \in 0..MaxBatch :
          \E ix \in NonDecreasing(m, 1, Len(BatchRowTypes)) :
            csv_file = [cols |-> CsvCols,
                        rows |-> [k \in 1..m |-> BatchRowTypes[ix[k]]]]
     \/ \E m \in 0..MaxRecords :
          \E ix \in NonDecreasing(m, 1, Len(MixedRowTypes)) :
            csv_file = [cols |-> CsvCols,
                        rows |-> [k \in 1..m |-> MixedRowTypes[ix[k]]]]
  /\ keyword_groups = KeywordGroups
  /\ InitScript

\* Any table: a Branch cell may be empty, and the table may carry a has_
\* column of its own or lack Clean_Text.
HasKidsCol == <<HasPrefix, "kids">>

AnyRowTypes ==
  SetToSeq({CsvRow(r, b, t, 1254) :
              r \in {1, 5}, b \in Branches \cup {""},
              t \in {TextWait, TextPrice, TextFun, TextEmpty}})

AnyRowTypesWithKids ==
  SetToSeq({CsvRow(r, b, t, 1254) @@ (HasKidsCol :> h) :
              r \in {1, 5}, b \in Branches \cup {""},
              t \in {TextWait, TextEmpty}, h \in {0, 1, 2}})

NoCleanTextFile ==
  [cols |-> <<RatingCol, BranchCol>>,
   rows |-> <<(RatingCol :> 5) @@ (BranchCol :> BranchOrder[1])>>]

InitTable ==
  /\ \/ \E m \in 0..MaxRecords :
          \E ix \in NonDecreasing(m, 1, Len(AnyRowTypes)) :
            csv_file = [cols |-> CsvCols,
                        rows |-> [k \in 1..m |-> AnyRowTypes[ix[k]]]]
     \/ \E m \in 0..MaxRecords :
          \E ix \in NonDecreasing(m, 1, Len(AnyRowTypesWithKids)) :
            csv_file = [cols |-> <<HasKidsCol>> \o CsvCols,
                        rows |-> [k \in 1..m |-> AnyRowTypesWithKids[ix[k]]]]
     \/ csv_file = NoCleanTextFile
  /\ keyword_groups = KeywordGroups
  /\ InitScript

\* Any topic configuration: a topic may have no pattern, or a pattern that
\* does not compile.
EmptyPatternGroups ==
  <<KeywordGroups[1], [name |-> <<"price_value">>, patterns |-> <<>>]>>

BadPatternGroups ==
  <<KeywordGroups[1],
    [name |-> <<"price_value">>, patterns |-> <<<<"p", "r", "i", "c", "e", "(">>>>]>>

Configs == {KeywordGroups, EmptyPatternGroups, BadPatternGroups}

InitConfig ==
  /\ \E m \in 0..MaxRecords :
       \E ix \in NonDecreasing(m, 1, Len(MixedRowTypes)) :
         csv_file = [cols |-> CsvCols,
                     rows |-> [k \in 1..m |-> MixedRowTypes[ix[k]]]]
  /\ keyword_groups \in Configs
  /\ InitScript

Next ==
  \/ Step0Load
  \/ Step1CreateFlag
  \/ Step2Aggregate
  \/ Step3SortAndSave
  \/ Step4Breakdown

Spec == Init /\ [][Next]_vars

SpecTable == InitTable /\ [][Next]_vars

SpecConfig == InitConfig /\ [][Next]_vars

----------------------------------------------------------------------------
(* data_cleaning.py                                                        *)

ReviewTextCol == Col("Review_Text")

\* \s of the regular expressions and the characters str.strip() removes
IsSpace(ch) == ch \in {" ", "\t", "\n"}
\* [a-zA-Z0-9]
IsAlnum(ch) == ch \in Range(LowerCase) \cup Range(UpperCase) \cup Digits

\* t starts with the literal p
StartsWith(t, p) == Len(t) >= Len(p) /\ SubSeq(t, 1, Len(p)) = p

\* The length of the longest run of non-space characters t starts with.
RECURSIVE NonSpaceRun(_)
NonSpaceRun(t) ==
  IF t = <<>> \/ IsSpace(Head(t)) THEN 0 ELSE 1 + NonSpaceRun(Tail(t))

\* The length of the match of http\S+|www\S+|<.*?> at the start of t, 0 for
\* no match.  \S+ is greedy and needs one character; .*? stops at the first
\* ">" and does not cross a line break.
UrlOrTagMatch(t) ==
  LET http == <<"h", "t", "t", "p">>
      www == <<"w", "w", "w">>
      after(p) == NonSpaceRun(SubSeq(t, Len(p) + 1, Len(t)))
      closes == {j \in 2..Len(t) : t[j] = ">"}
      first == CHOOSE j \in closes : \A k \in closes : j <= k
  IN  IF StartsWith(t, http) /\ after(http) > 0 THEN Len(http) + after(http)
      ELSE IF StartsWith(t, www) /\ after(www) > 0 THEN Len(www) + after(www)
      ELSE IF /\ t # <<>> /\ Head(t) = "<" /\ closes # {}
              /\ \A k \in 2..(first - 1) : t[k] # "\n"
           THEN first
      ELSE 0

\* re.sub(r"http\S+|www\S+|<.*?>", "", t): the matches are found from left to
\* right, each search starting where the last match ended.
RECURSIVE SubUrlsAndTags(_)
SubUrlsAndTags(t) ==
  IF t = <<>> THEN <<>>
  ELSE LET m == UrlOrTagMatch(t)
       IN  IF m > 0 THEN SubUrlsAndTags(SubSeq(t, m + 1, Len(t)))
           ELSE <<Head(t)>> \o SubUrlsAndTags(Tail(t))

\* re.sub(r"[^a-zA-Z0-9\s]", "", t)
SubSpecialCharacters(t) == SelectSeq(t, LAMBDA ch : IsAlnum(ch) \/ IsSpace(ch))

\* str.strip()
RECURSIVE LStrip(_)
LStrip(t) == IF t # <<>> /\ IsSpace(Head(t)) THEN LStrip(Tail(t)) ELSE t

RECURSIVE RStrip(_)
RStrip(t) ==
  IF t # <<>> /\ IsSpace(t[Len(t)]) THEN RStrip(SubSeq(t, 1, Len(t) - 1)) ELSE t

Strip(t) == RStrip(LStrip(t))

\* clean_text, lines 16-20
clean_text(text) == Strip(SubSpecialCharacters(SubUrlsAndTags(LowerText(text))))

\* Line 6: read the raw table; an empty Review_Text field is NaN.
CleanRead ==
  /\ clean_pc = "read"
  /\ clean_df' = [k \in 1..Len(reviews_file) |->
                    [c \in DOMAIN reviews_file[k] |->
                       IF c = ReviewTextCol /\ reviews_file[k][c] = <<>>
                       THEN NaNText ELSE reviews_file[k][c]]]
  /\ clean_pc' = "dedup"
  /\ UNCHANGED <<csv_file, reviews_file, cohortVars, pcaVars>>

\* The rows of table that are the first with their value in col.
FirstOccurrences(table, col) ==
  LET keep == {k \in 1..Len(table) : \A j \in 1..(k - 1) : table[j][col] # table[k][col]}
      RECURSIVE pick(_)
      pick(k) == IF k > Len(table) THEN <<>>
                 ELSE (IF k \in keep THEN <<table[k]>> ELSE <<>>) \o pick(k + 1)
  IN  pick(1)

\* Line 9: df.drop_duplicates(subset=["Review_Text"])
DropDuplicates ==
  /\ clean_pc = "dedup"
  /\ clean_df' = FirstOccurrences(clean_df, ReviewTextCol)
  /\ clean_pc' = "dropna"
  /\ UNCHANGED <<csv_file, reviews_file, cohortVars, pcaVars>>

\* Line 10: df.dropna(subset=["Review_Text"])
DropNa ==
  /\ clean_pc = "dropna"
  /\ clean_df' = SelectSeq(clean_df, LAMBDA r : r[ReviewTextCol] # NaNText)
  /\ clean_pc' = "clean"
  /\ UNCHANGED <<csv_file, reviews_file, cohortVars, pcaVars>>

\* Line 22: df["Clean_Text"] = df["Review_Text"].apply(clean_text)
ApplyCleanText ==
  /\ clean_pc = "clean"
  /\ clean_df' = [k \in 1..Len(clean_df) |->
                    clean_df[k] @@ (CleanTextCol :> clean_text(clean_df[k][ReviewTextCol]))]
  /\ clean_pc' = "sentiment"
  /\ UNCHANGED <<csv_file, reviews_file, cohortVars, pcaVars>>

\* TextBlob(text).sentiment.polarity, in ten-thousandths: the lexicon is not
\* part of the repository, so the score of a text with words is any of the
\* model's scores; a text without words scores 0.
Polarities(text) == IF text = <<>> THEN {0} ELSE {-1254, 1254}

\* Line 28: df["Sentiment_Score"] = df["Clean_Text"].apply(get_sentiment)
ApplySentiment ==
  /\ clean_pc = "sentiment"
  /\ \E score \in [1..Len(clean_df) -> {-1254, 0, 1254}] :
       /\ \A k \in 1..Len(clean_df) :
            score[k] \in Polarities(clean_df[k][CleanTextCol])
       /\ clean_df' = [k \in 1..Len(clean_df) |->
                         clean_df[k] @@ (SentimentCol :> score[k])]
  /\ clean_pc' = "save"
  /\ UNCHANGED <<csv_file, reviews_file, cohortVars, pcaVars>>

\* Line 31: df.to_csv("DisneylandReviews_clean.csv", index=False)
SaveCsv ==
  /\ clean_pc = "save"
  /\ csv_file' = [cols |-> <<ReviewTextCol>> \o CsvCols, rows |-> clean_df]
  /\ clean_pc' = "done"
  /\ UNCHANGED <<reviews_file, clean_df, cohortVars, pcaVars>>

MaxTextLen == 5   \* characters of a raw review whose every character varies

Alphabet == {"w", "h", "t", "p", ".", " ", "<", ">", "W"}

RawRow(text) ==
  (ReviewTextCol :> text) @@ (RatingCol :> 5) @@ (BranchCol :> BranchOrder[1])

\* Raw reviews with markup, a URL, no letters, a line break, and no text.
SampleTexts ==
  {<<"G", "r", "e", "a", "t", "!", "!", " ", "<", "b", ">", "f", "u", "n", "<", "/", "b", ">">>,
   <<"s", "e", "e", " ", "w", "w", "w", ".", "x", ".", "c", "o", " ", "n", "o", "w">>,
   <<"!", "!", "!">>,
   <<"L", "o", "n", "g", " ", "w", "a", "i", "t">>,
   <<"o", "k", "\n", "<", "3">>,
   <<>>}

CohortIdle ==
  /\ keyword_groups = KeywordGroups /\ pc = "idle"
  /\ df = [cols |-> <<>>, rows |-> <<>>] /\ flag_cols = <<>> /\ rows = <<>>
  /\ impact_df = <<>> /\ branch_rows = <<>> /\ raised = "none" /\ topic_i = 0

NoFile == [cols |-> <<>>, rows |-> <<>>]

\* data_cleaning.py before its first line: the raw table has one review of
\* any characters, or two reviews out of the samples.
InitClean ==
  /\ \/ \E n \in 0..MaxTextLen : \E text \in [1..n -> Alphabet] :
          reviews_file = <<RawRow(text)>>
     \/ \E a, b \in SampleTexts : reviews_file = <<RawRow(a), RawRow(b)>>
  /\ clean_pc = "read"
  /\ clean_df = <<>>
  /\ csv_file = NoFile
  /\ CohortIdle
  /\ PcaIdle

NextClean ==
  \/ CleanRead
  \/ DropDuplicates
  \/ DropNa
  \/ ApplyCleanText
  \/ ApplySentiment
  \/ SaveCsv

SpecClean == InitClean /\ [][NextClean]_vars

\* C2: cleaning a cleaned text changes nothing: every Clean_Text the script
\* computes is a fixed point of clean_text.
C2_CleanTextIdempotent ==
  \A k \in 1..Len(clean_df) :
    CleanTextCol \in DOMAIN clean_df[k] =>
      clean_text(clean_df[k][CleanTextCol]) = clean_df[k][CleanTextCol]

----------------------------------------------------------------------------
(* PCA_analysis.py                                                         *)

\* \w of the token pattern
IsWordChar(ch) == IsAlnum(ch) \/ ch = "_"

\* The maximal runs of word characters of t, in order; cur is the run being
\* read.
RECURSIVE WordRuns(_, _)
WordRuns(t, cur) ==
  IF t = <<>> THEN (IF cur = <<>> THEN <<>> ELSE <<cur>>)
  ELSE IF IsWordChar(Head(t)) THEN WordRuns(Tail(t), Append(cur, Head(t)))
  ELSE (IF cur = <<>> THEN <<>> ELSE <<cur>>) \o WordRuns(Tail(t), <<>>)

\* token_pattern r"(?u)\b\w\w+\b" on the lowercased text: the words of two
\* characters or more.
Tokenize(t) == SelectSeq(WordRuns(LowerText(t), <<>>), LAMBDA w : Len(w) >= 2)

\* stop_words='english': the words of scikit-learn's list that the model's
\* texts use.
StopWords == {<<"i", "t">>, <<"w", "a", "s">>, <<"t", "o", "o">>, <<"t", "h", "e">>}

\* ngram_range=(1, 2): after the stop words are removed, every word and every
\* pair of neighbours.  A term is a sequence of words.
Terms(t) ==
  LET words == SelectSeq(Tokenize(t), LAMBDA w : w \notin StopWords)
  IN  [i \in 1..Len(words) |-> <<words[i]>>]
        \o [i \in 1..(Len(words) - 1) |-> <<words[i], words[i + 1]>>]

CountOf(terms, term) == Cardinality({i \in 1..Len(terms) : terms[i] = term})

MaxFeatures == 500

\* The vocabularies fit_transform may settle on: every term of the corpus,
\* or with more than max_features of them the max_features most frequent
\* ones, terms of equal frequency being cut in an order the sort leaves open.
Vocabularies(docs) ==
  LET all == UNION {Range(Terms(docs[d])) : d \in 1..Len(docs)}
      tf(term) == SumSeq([d \in 1..Len(docs) |-> CountOf(Terms(docs[d]), term)])
  IN  IF Cardinality(all) <= MaxFeatures THEN {all}
      ELSE {V \in SUBSET all :
              /\ Cardinality(V) = MaxFeatures
              /\ \A in \in V, out \in all \ V : tf(in) >= tf(out)}

\* Lines 17-23: read the file, drop the rows without Clean_Text, print how
\* many rows are left.
PcaLoad ==
  /\ pca_pc = "load"
  /\ pca_df' = SelectSeq(ReadCsv(csv_file).rows,
                         LAMBDA r : r[CleanTextCol] # NaNText)
  /\ printed' = Num(Len(pca_df'))
  /\ pca_pc' = "tfidf"
  /\ UNCHANGED <<csv_file, feature_names, X, X_pca, pca_raised, cohortVars,
                 cleanVars>>

\* Lines 33-42: TfidfVectorizer(...).fit_transform.  An empty vocabulary is
\* a ValueError.  X holds the term counts: a TF-IDF weight is zero exactly
\* when the count is.
BuildTfidf ==
  /\ pca_pc = "tfidf"
  /\ LET docs == ColumnOf(pca_df, CleanTextCol)
     IN  \E V \in Vocabularies(docs) :
           IF V = {}
           THEN /\ pca_pc' = "raised"
                /\ pca_raised' = "ValueError: empty vocabulary"
                /\ UNCHANGED <<feature_names, X>>
           ELSE /\ feature_names' = V
                /\ X' = [d \in 1..Len(docs) |->
                           [term \in V |-> CountOf(Terms(docs[d]), term)]]
                /\ pca_pc' = "pca"
                /\ UNCHANGED pca_raised
  /\ UNCHANGED <<csv_file, pca_df, printed, X_pca, cohortVars, cleanVars>>

NComponents == 2

\* Lines 50-56: PCA(n_components=2).fit_transform(X.toarray()).  The full
\* solver refuses n_components above min(n_samples, n_features).  Of the
\* result the model keeps the shapes: the coordinates are n_samples by
\* n_components, and explained_variance_ratio_ has n_components entries.
RunPca ==
  /\ pca_pc = "pca"
  /\ LET n_samples == Len(X)
         n_features == Cardinality(feature_names)
         smaller == IF n_samples < n_features THEN n_samples ELSE n_features
     IN  IF NComponents > smaller
         THEN /\ pca_pc' = "raised"
              /\ pca_raised' = "ValueError: n_components"
              /\ UNCHANGED X_pca
         ELSE /\ X_pca' = [n_rows |-> n_samples, n_cols |-> NComponents,
                           n_ratios |-> NComponents]
              /\ pca_pc' = "save"
              /\ UNCHANGED pca_raised
  /\ UNCHANGED <<csv_file, pca_df, printed, feature_names, X, cohortVars,
                 cleanVars>>

\* Lines 60-155: the coordinates are saved beside Sentiment_Score, Rating and
\* Branch; the plots and the top terms follow.
PcaSaveAndPlot ==
  /\ pca_pc = "save"
  /\ pca_pc' = "done"
  /\ UNCHANGED <<csv_file, pca_df, printed, feature_names, X, X_pca,
                 pca_raised, cohortVars, cleanVars>>

MaxDocs == 3   \* rows of the table PCA_analysis.py reads

TextStop == <<"i", "t", " ", "w", "a", "s">>

PcaRowTypes ==
  SetToSeq({CsvRow(5, b, t, 1254) :
              b \in Branches,
              t \in {TextWait, TextPrice, TextFun, TextStop, TextEmpty}})

\* PCA_analysis.py before its first line, given a file data_cleaning.py
\* wrote.
InitPca ==
  /\ \E m \in 0..MaxDocs :
       \E ix \in NonDecreasing(m, 1, Len(PcaRowTypes)) :
         csv_file = [cols |-> CsvCols,
                     rows |-> [k \in 1..m |-> PcaRowTypes[ix[k]]]]
  /\ pca_pc = "load" /\ pca_df = <<>> /\ printed = NaN
  /\ feature_names = {} /\ X = <<>> /\ X_pca = <<>> /\ pca_raised = "none"
  /\ CohortIdle
  /\ CleanIdle

NextPca ==
  \/ PcaLoad
  \/ BuildTfidf
  \/ RunPca
  \/ PcaSaveAndPlot

SpecPca == InitPca /\ [][NextPca]_vars

\* The documents of the file that have text, and the terms they hold.
FileDocs ==
  SelectSeq(ColumnOf(csv_file.rows, CleanTextCol), LAMBDA t : t # <<>>)

FileTerms == UNION {Range(Terms(FileDocs[d])) : d \in 1..Len(FileDocs)}

\* C8: on a file with no document, with fewer than 2 documents or with
\* fewer than 2 terms the vectorize-then-PCA step raises nothing, and once
\* past it there are coordinates of N rows by 2 and two variance ratios.
C8_DegenerateInputCompletes ==
  (Len(FileDocs) < 2 \/ Cardinality(FileTerms) < 2) =>
    /\ pca_raised = "none"
    /\ pca_pc \in {"save", "done"} =>
         X_pca = [n_rows |-> Len(FileDocs), n_cols |-> 2, n_ratios |-> 2]

----------------------------------------------------------------------------
(* Properties of the cohort tables                                         *)

Abs(x) == IF x < 0 THEN -x ELSE x

\* The rows the script has written so far, each with the rows of df in its
\* scope and the flag column it reports on.
OverallEntries ==
  {[row |-> rows[j], scope |-> df.rows, col |-> flag_cols[j]] :
     j \in 1..Len(rows)}

BranchEntries ==
  {[row |-> branch_rows[i],
    scope |-> GroupRows(df.rows, branch_rows[i].branch),
    col |-> flag_cols[((i - 1) % Len(flag_cols)) + 1]] :
     i \in 1..Len(branch_rows)}

Entries == OverallEntries \cup BranchEntries

CountFlag(scope, col, v) == Cardinality({k \in 1..Len(scope) : scope[k][col] = v})

SumWhere(scope, col, flag, v) ==
  SumSeq([k \in 1..Len(scope) |->
            IF scope[k][flag] = v THEN scope[k][col] ELSE 0])

\* C1: in every row of the overall table and of the per-branch table, each
\* delta is missing exactly when the mentioned or the not-mentioned rows of
\* the scope are none, each partition mean is missing exactly when that
\* partition is empty, and the sorted table holds the same rows.
C1_MissingIffEmptyPartition ==
  /\ \A e \in Entries :
       LET n1 == CountFlag(e.scope, e.col, 1)
           n0 == CountFlag(e.scope, e.col, 0)
       IN  /\ IsNaN(e.row.rating_diff) <=> (n1 = 0 \/ n0 = 0)
           /\ IsNaN(e.row.sentiment_diff) <=> (n1 = 0 \/ n0 = 0)
           /\ IsNaN(e.row.avg_rating_if_mentioned) <=> n1 = 0
           /\ IsNaN(e.row.avg_sentiment_if_mentioned) <=> n1 = 0
           /\ IsNaN(e.row.avg_rating_if_not_mentioned) <=> n0 = 0
           /\ IsNaN(e.row.avg_sentiment_if_not_mentioned) <=> n0 = 0
  /\ Range(impact_df) \subseteq Range(rows)

\* The script has finished; one overall row has a number for its rating
\* delta, another overall row has a missing delta, and a branch row has a
\* missing delta for a topic whose overall delta is a number.
C1_Witness ==
  /\ pc = "done"
  /\ \E r \in Range(impact_df) : ~IsNaN(r.rating_diff)
  /\ \E r \in Range(impact_df) :
       IsNaN(r.rating_diff) /\ r.n_reviews_mentioned = 0
         /\ r.n_reviews_not_mentioned > 0
  /\ \E b \in Range(branch_rows) : \E r \in Range(impact_df) :
       b.topic = r.topic /\ IsNaN(b.rating_diff) /\ ~IsNaN(r.rating_diff)

\* The flag columns of the topics of keyword_groups.
ConfiguredCols ==
  {FlagColName(keyword_groups[j].name) : j \in 1..Len(keyword_groups)}

\* C4: for every topic of keyword_groups and every scope with rows, the
\* mentioned and the not-mentioned rows are disjoint and together are the
\* scope, and the mention rate is the share of mentioned rows as a
\* percentage between 0 and 100, to the nearest hundredth of a percent:
\* 2 of 5 is 40.00.
C4_PartitionAndMentionRate ==
  \A e \in {x \in Entries : x.col \in ConfiguredCols} :
    LET n == Len(e.scope)
        n1 == CountFlag(e.scope, e.col, 1)
        n0 == CountFlag(e.scope, e.col, 0)
    IN  n > 0 =>
          /\ e.row.n_reviews_mentioned = n1
          /\ e.row.n_reviews_not_mentioned = n0
          /\ e.row.n_reviews_mentioned + e.row.n_reviews_not_mentioned = n
          /\ ~IsNaN(e.row.mention_rate)
          /\ ValueOf(e.row.mention_rate) \in 0..(100 * 100)
          /\ 2 * Abs(ValueOf(e.row.mention_rate) * n - 100 * 100 * n1) <= n
          /\ (n = 5 /\ n1 = 2) => ValueOf(e.row.mention_rate) = 40 * 100

\* Five rows with ratings 5, 1, 5, 2, 4 of which the two rated 1 and 2
\* mention waiting: the script reports 40%, 1.5, 4.667 and -3.167.
C4_Witness ==
  /\ pc = "done"
  /\ Len(df.rows) = 5
  /\ \E r \in Range(impact_df) :
       /\ r.topic = <<"wait_time">>
       /\ r.n_reviews_mentioned = 2
       /\ r.n_reviews_not_mentioned = 3
       /\ r.mention_rate = Num(40 * 100)
       /\ r.avg_rating_if_mentioned = Num(1500)
       /\ r.avg_rating_if_not_mentioned = Num(4667)
       /\ r.rating_diff = Num(-3167)

\* C5 as stated: in every row with both partitions non-empty the reported
\* delta is the reported mentioned mean minus the reported not-mentioned
\* mean, for the rating and for the sentiment.
C5_DiffOfReportedMeans ==
  \A e \in Entries :
    (e.row.n_reviews_mentioned > 0 /\ e.row.n_reviews_not_mentioned > 0) =>
      /\ ValueOf(e.row.rating_diff) =
           ValueOf(e.row.avg_rating_if_mentioned)
             - ValueOf(e.row.avg_rating_if_not_mentioned)
      /\ ValueOf(e.row.sentiment_diff) =
           ValueOf(e.row.avg_sentiment_if_mentioned)
             - ValueOf(e.row.avg_sentiment_if_not_mentioned)

\* Whether d thousandths is a nearest thousandth to num / den.
NearestThousandth(d, num, den) == 2 * Abs(d * den - 1000 * num) <= den

\* C5 as amended: in every row with both partitions non-empty the reported
\* delta is the difference of the two unrounded partition means, rounded to
\* 3 decimals, and so lies within 0.001 of the difference of the two
\* reported means.
C5_DiffRoundedOnce ==
  \A e \in Entries :
    LET n1 == CountFlag(e.scope, e.col, 1)
        n0 == CountFlag(e.scope, e.col, 0)
        exact(c) == SumWhere(e.scope, c, e.col, 1) * n0
                      - SumWhere(e.scope, c, e.col, 0) * n1
    IN  (n1 > 0 /\ n0 > 0) =>
          /\ NearestThousandth(ValueOf(e.row.rating_diff),
                               exact(RatingCol), n1 * n0)
          /\ NearestThousandth(ValueOf(e.row.sentiment_diff),
                               exact(SentimentCol),
                               n1 * n0 * SentimentUnitsPerOne)
          /\ Abs(ValueOf(e.row.rating_diff)
                   - (ValueOf(e.row.avg_rating_if_mentioned)
                        - ValueOf(e.row.avg_rating_if_not_mentioned))) <= 1
          /\ Abs(ValueOf(e.row.sentiment_diff)
                   - (ValueOf(e.row.avg_sentiment_if_mentioned)
                        - ValueOf(e.row.avg_sentiment_if_not_mentioned))) <= 1

\* Ratings 1, 1, 2 mention waiting and ratings 1, 2, 2 do not: the means are
\* reported as 1.333 and 1.667 and the delta as -0.333, not -0.334.
C5_Witness ==
  /\ pc = "done"
  /\ \E r \in Range(impact_df) :
       /\ r.avg_rating_if_mentioned = Num(1333)
       /\ r.avg_rating_if_not_mentioned = Num(1667)
       /\ r.rating_diff = Num(-333)

\* The position of a topic in keyword_groups, 0 for a name that is not one.
ConfigIndex(topic) ==
  IF \E j \in 1..Len(keyword_groups) : keyword_groups[j].name = topic
  THEN CHOOSE j \in 1..Len(keyword_groups) : keyword_groups[j].name = topic
  ELSE 0

\* C3: once sorted, the overall table ascends by rating_diff, and two topics
\* with the same rating_diff stand in the order keyword_groups lists them.
C3_AscendingAndStable ==
  pc \in {"breakdown", "done"} =>
    \A a, b \in 1..Len(impact_df) :
      (a < b /\ ~IsNaN(impact_df[a].rating_diff)
             /\ ~IsNaN(impact_df[b].rating_diff)) =>
        /\ ValueOf(impact_df[a].rating_diff) <= ValueOf(impact_df[b].rating_diff)
        /\ impact_df[a].rating_diff = impact_df[b].rating_diff =>
             ConfigIndex(impact_df[a].topic) < ConfigIndex(impact_df[b].topic)

\* A topic the script cannot use: no pattern, or a pattern that does not
\* compile.
Malformed(group) ==
  group.patterns = <<>> \/ ~Compiles(CombinedPattern(group.patterns))

\* C6: with a malformed topic in keyword_groups the script tags no record
\* for any topic and writes no row: it stops with an error first.
C6_MalformedTopicStopsBeforeTagging ==
  (\E j \in 1..Len(keyword_groups) : Malformed(keyword_groups[j])) =>
    /\ topic_i = 0
    /\ \A c \in Range(df.cols) : ~StartsWithHas(c) \/ c \in Range(csv_file.cols)
    /\ rows = <<>> /\ impact_df = <<>> /\ branch_rows = <<>>
    /\ pc \in {"load", "flags", "raised"}

\* C7: a file with a record whose Clean_Text is empty does not make the
\* cohort script fail; the record is counted in a partition of every topic.
C7_EmptyTextRetained ==
  (/\ CleanTextCol \in Range(csv_file.cols)
   /\ \E k \in 1..Len(csv_file.rows) : csv_file.rows[k][CleanTextCol] = <<>>) =>
    /\ raised = "none"
    /\ \A r \in Range(rows) :
         r.n_reviews_mentioned + r.n_reviews_not_mentioned = Len(csv_file.rows)

ConfiguredTopics == {keyword_groups[j].name : j \in 1..Len(keyword_groups)}

\* C9: the finished tables report exactly the topics of keyword_groups, one
\* row for each overall and one for each in every branch.
C9_TopicsAreTheConfigured ==
  pc = "done" =>
    /\ Len(impact_df) = Len(keyword_groups)
    /\ {r.topic : r \in Range(impact_df)} = ConfiguredTopics
    /\ \A b \in {r.branch : r \in Range(branch_rows)} :
         /\ {r.topic : r \in {x \in Range(branch_rows) : x.branch = b}}
              = ConfiguredTopics
         /\ Cardinality({i \in 1..Len(branch_rows) : branch_rows[i].branch = b})
              = Len(keyword_groups)

\* C10: for each topic the per-branch counts of mentioned rows add up to the
\* overall count, and so do the counts of not-mentioned rows.
C10_BranchCountsAddUp ==
  pc = "done" =>
    \A j \in 1..Len(rows) :
      LET mine == [i \in 1..Len(branch_rows) |->
                     IF ((i - 1) % Len(flag_cols)) + 1 = j
                     THEN branch_rows[i] ELSE [n_reviews_mentioned |-> 0,
                                               n_reviews_not_mentioned |-> 0]]
      IN  /\ SumSeq([i \in 1..Len(mine) |-> mine[i].n_reviews_mentioned])
               = rows[j].n_reviews_mentioned
          /\ SumSeq([i \in 1..Len(mine) |-> mine[i].n_reviews_not_mentioned])
               = rows[j].n_reviews_not_mentioned

====
